---- MODULE Spec2Model ----
(***************************************************************************)
(* Model of the woxxy build scripts:                                       *)
(*   scripts/flutter_check.py   the metadata consistency checker           *)
(*   scripts/build_linux.py     the Linux desktop packager                 *)
(*   scripts/build_windows.py   the Windows desktop packager               *)
(*                                                                         *)
(* Text is modelled as a sequence of lexemes (each lexeme a TLA+ string),  *)
(* so that "in", split, strip, startswith and replace are computed on the  *)
(* text as Python computes them on characters.                             *)
(***************************************************************************)
EXTENDS Integers, Sequences, FiniteSets, TLC

VARIABLES
    prog,                   \* which script this run is: "check" or "pack"
    pc,                     \* position in the script
    args,                   \* parsed command line of flutter_check.py
    VERSION_DART,           \* flutter_check.py module variable
    VERSION_PUBSPEC,        \* flutter_check.py module variable
    app_info,               \* the loaded identity JSON (a function key -> text)
    android_manifest,       \* text of main/AndroidManifest.xml once read
    android_debug_manifest, \* text of debug/AndroidManifest.xml once read
    kotlin_tree,            \* the directory tree under android/app/src/main/kotlin/
    files,                  \* the loop variable "files" left behind by the os.walk loop
    main_activity,          \* text of MainActivity.kt once read
    build_gradle,           \* text of android/app/build.gradle once read
    info_plist,             \* text of ios/Runner/Info.plist once read
    project_pbxproj,        \* text of ios/Runner.xcodeproj/project.pbxproj once read
    reads,                  \* the files opened so far, in order
    out,                    \* the diagnostics printed so far, in order
    exitCode,               \* -1 while running, else the process exit status
    uncaught,               \* "none", or the exception that ended the process
    platform,               \* packager: "linux" or "windows"
    version_file,           \* packager: the lines of lib/config/version.dart
    APP_VERSION,            \* packager module variable
    FINAL_ZIP,              \* packager module variable
    bundle,                 \* packager: the release bundle directory on disk
    rootfs,                 \* packager: archives in the project root, by name
    desktop,                \* packager: archives in ~/Desktop, by name
    trace,                  \* packager: the functions of __main__ run so far
    unlinked                \* packager: whether os.unlink removed a destination file

checkVars == <<args, VERSION_DART, VERSION_PUBSPEC, app_info, android_manifest,
               android_debug_manifest, kotlin_tree, files, main_activity,
               build_gradle, info_plist, project_pbxproj, reads, out>>
packVars == <<platform, version_file, APP_VERSION, FINAL_ZIP, bundle, rootfs,
              desktop, trace, unlinked>>
vars == <<prog, pc, exitCode, uncaught, checkVars, packVars>>

(***************************************************************************)
(* Bounds of the model.                                                    *)
(***************************************************************************)
MaxLines == 2       \* lines in a modelled version.dart / pubspec.yaml

(***************************************************************************)
(* Python's string operations, on sequences of lexemes.                    *)
(***************************************************************************)

\* needle in hay
Contains(needle, hay) ==
    \E i \in 0..(Len(hay) - Len(needle)) :
        SubSeq(hay, i + 1, i + Len(needle)) = needle

\* s.startswith(p)
StartsWith(s, p) == Len(p) <= Len(s) /\ SubSeq(s, 1, Len(p)) = p

\* index of the first occurrence of the lexeme sep in s, 0 if there is none
RECURSIVE FirstIndex(_, _, _)
FirstIndex(s, sep, i) ==
    IF i > Len(s) THEN 0
    ELSE IF s[i] = sep THEN i
    ELSE FirstIndex(s, sep, i + 1)

\* s.split(sep) for a one-character separator: the list of pieces
RECURSIVE Split(_, _)
Split(s, sep) ==
    LET i == FirstIndex(s, sep, 1)
    IN  IF i = 0 THEN <<s>>
        ELSE <<SubSeq(s, 1, i - 1)>> \o Split(SubSeq(s, i + 1, Len(s)), sep)

Whitespace == {" ", "\n"}

RECURSIVE LStrip(_)
LStrip(s) ==
    IF s # <<>> /\ Head(s) \in Whitespace THEN LStrip(Tail(s)) ELSE s

RECURSIVE RStrip(_)
RStrip(s) ==
    IF s # <<>> /\ s[Len(s)] \in Whitespace
    THEN RStrip(SubSeq(s, 1, Len(s) - 1))
    ELSE s

\* s.strip()
Strip(s) == RStrip(LStrip(s))

\* s.replace(a, b) for one-character a and b
Replace(s, a, b) == [i \in 1..Len(s) |-> IF s[i] = a THEN b ELSE s[i]]

\* membership in a Python list
InList(x, list) == \E i \in 1..Len(list) : list[i] = x

\* the concatenation of the fragments of frags selected by the index set S
RECURSIVE Cat(_, _, _)
Cat(frags, S, i) ==
    IF i > Len(frags) THEN <<>>
    ELSE (IF i \in S THEN frags[i] ELSE <<"\n">>) \o Cat(frags, S, i + 1)

\* the texts an artifact may hold: every selection of the given fragments
Texts(frags) == {Cat(frags, S, 1) : S \in SUBSET (1..Len(frags))}

\* a file on disk: absent, or present with a text
NoFile == [exists |-> FALSE, text |-> <<>>]
FilesOf(texts) == {NoFile} \cup {[exists |-> TRUE, text |-> t] : t \in texts}

\* all sequences over S of length at most n
SeqsUpTo(S, n) == UNION {[1..k -> S] : k \in 0..n}


(***************************************************************************)
(* The inputs of the scripts: what the files they read may hold.           *)
(***************************************************************************)

\* the identity the JSON descriptor may give
AppName == <<"Woxxy">>
Package == <<"com", ".", "woxxy">>
IosPackages == {<<"com", ".", "woxxy", ".", "ios">>, <<"org", ".", "app">>}

\* a JSON file: absent, present and malformed, or present with an object
JsonObjects ==
    {<<>>, ("name" :> AppName @@ "package" :> Package)}
    \cup {("name" :> AppName @@ "package" :> Package @@ "ios-package" :> p) :
            p \in IosPackages}
JsonFiles ==
    {[exists |-> FALSE, wellformed |-> FALSE, obj |-> <<>>],
     [exists |-> TRUE, wellformed |-> FALSE, obj |-> <<>>]}
    \cup {[exists |-> TRUE, wellformed |-> TRUE, obj |-> o] : o \in JsonObjects}

\* lines a lib/config/version.dart may hold (without the line end)
DartLines ==
    {<<"const String ", "APP_VERSION", " = ", "'", "1.0", "'", ";">>,
     <<"const String ", "APP_VERSION", " = ", "\"", "1.0", "\"", ";">>,
     <<"const ", "APP_VERSION", " = ", "'", "1.0", "'", ";">>,
     <<"const String ", "APP_VERSION", " = ", "'", "2.0", "'", ";">>,
     <<"// ", "APP_VERSION">>,
     <<"import">>}
\* lines a pubspec.yaml may hold (without the line end)
PubspecLines ==
    {<<"version", ":", " ", "1.0">>,
     <<"version", ":", " ", "2.0", " ">>,
     <<" ", "version", ":", " ", "1.0">>,
     <<"name", ":", " ", "woxxy">>}

\* a text file as the list of its lines: absent, or present with its lines
NoLines == [exists |-> FALSE, lines |-> <<>>]
LineFiles(L) ==
    {NoLines} \cup {[exists |-> TRUE, lines |-> l] : l \in SeqsUpTo(L, MaxLines)}

ManifestFiles == FilesOf(Texts(<<AppName, Package>>))
MainActivityTexts == Texts(<<Package, <<"FlutterFragmentActivity">>>>)
GradleFiles ==
    FilesOf(Texts(<<<<"keystoreProperties">>, <<"signingConfigs {">>, Package,
                    <<"flutterVersionCode.toInteger()">>>>))
PlistFiles == FilesOf(Texts(<<AppName>>))
PbxprojFiles == FilesOf(Texts(<<Package, <<".", "ios">>, <<"org", ".", "app">>>>))

\* the directory tree under android/app/src/main/kotlin/: the directories as
\* paths from that root, and the directories that hold a MainActivity.kt
DirNames == {<<"com">>, <<"woxxy">>, <<"other">>}
DirPaths ==
    {<<a>> : a \in DirNames}
    \cup {<<<<"com">>, b>> : b \in DirNames}
    \cup {<<<<"woxxy">>, <<"com">>>>, <<<<"com">>, <<"woxxy">>, <<"com">>>>}
Parent(p) == SubSeq(p, 1, Len(p) - 1)
NoTree == [exists |-> FALSE, dirs |-> {}, mains |-> {}]
KotlinTrees ==
    {NoTree} \cup
    {[exists |-> TRUE, dirs |-> d, mains |-> m] :
        d \in {x \in SUBSET DirPaths : \A p \in x : Len(p) = 1 \/ Parent(p) \in x},
        m \in {{}} \cup {{<<>>}} \cup {{p} : p \in DirPaths}}
TreesOnDisk == {t \in KotlinTrees : t.mains \subseteq t.dirs \cup {<<>>}}

(***************************************************************************)
(* flutter_check.py: the pure parts.                                       *)
(***************************************************************************)

\* readlines(): every line with its line end
ReadLines(f) == [i \in 1..Len(f.lines) |-> f.lines[i] \o <<"\n">>]

\* the value the version.dart loop leaves in VERSION_DART
RECURSIVE CheckerVersionDart(_)
CheckerVersionDart(lines) ==
    IF lines = <<>> THEN <<>>
    ELSE LET line == Head(lines)
         IN  IF Contains(<<"APP_VERSION">>, line)
             THEN IF Contains(<<"'">>, line) THEN Split(line, "'")[2]
                  ELSE IF Contains(<<"\"">>, line) THEN Split(line, "\"")[2]
                  ELSE <<>>
             ELSE CheckerVersionDart(Tail(lines))

\* the value the pubspec.yaml loop leaves in VERSION_PUBSPEC
RECURSIVE CheckerVersionPubspec(_)
CheckerVersionPubspec(lines) ==
    IF lines = <<>> THEN <<>>
    ELSE LET line == Head(lines)
         IN  IF StartsWith(line, <<"version", ":">>)
             THEN Strip(Split(line, ":")[2])
             ELSE CheckerVersionPubspec(Tail(lines))

VersionsDifferSelf(vd, vp) == vd # vd
\* the test of the version check
VersionsDiffer(vd, vp) == vd # vp

\* a print() call: the message and the values formatted into it
P(msg, vals) == [msg |-> msg, vals |-> vals]

SkipAndroidWrongFlag(a) == a.skip_kotlin
\* the guards of the platform blocks
SkipAndroid(a) == a.skip_android
SkipIos(a) == a.skip_ios
SkipKotlin(a) == a.skip_kotlin

HasKey(info, k) == k \in DOMAIN info

EffectiveIosPackageNoOverride(info) == info["package"]
\* app_info.get("ios-package", app_info["package"])
EffectiveIosPackage(info) ==
    IF HasKey(info, "ios-package") THEN info["ios-package"] ELSE info["package"]


\* split_package = app_info["package"].split(".")
SplitPackage(info) == Split(info["package"], ".")

\* the directories of the tree directly under directory p
Children(t, p) == {q \in t.dirs : Len(q) = Len(p) + 1 /\ Parent(q) = p}

\* a directory name the walk loop rejects
BadDir(q, info) == ~InList(q[Len(q)], SplitPackage(info))

\* the directories the walk loop may report, walking top-down from p in any
\* listing order: a rejected entry of the first directory that lists one
RECURSIVE Reported(_, _, _)
Reported(t, p, info) ==
    LET bad == {q \in Children(t, p) : BadDir(q, info)}
    IN  IF bad # {} THEN bad
        ELSE UNION {Reported(t, q, info) : q \in Children(t, p)}

\* the directories a top-down walk from p may yield last
RECURSIVE LastYielded(_, _)
LastYielded(t, p) ==
    IF Children(t, p) = {} THEN {p}
    ELSE UNION {LastYielded(t, q) : q \in Children(t, p)}

\* the "files" of the (root, dirs, files) tuple yielded for directory p
FilesIn(t, p) == IF p \in t.mains THEN {"MainActivity.kt"} ELSE {}

\* the directory of dname = ".../kotlin/%s" % package.replace(".", "/"), as a
\* path from the kotlin root
PackagePath(info) ==
    LET parts == Split(Replace(info["package"], ".", "/"), "/")
    IN  [i \in 1..Len(parts) |-> parts[i]]

Snippet(directive) == P("remediation snippet", <<<<directive>>>>)

GradleDiagnosticsNoVersionCode(text, pkg) ==
    IF ~Contains(<<"keystoreProperties">>, text)
    THEN <<P("Error: keystoreProperties not found in android/app/build.gradle", <<>>),
           Snippet("keystoreProperties")>>
    ELSE IF ~Contains(<<"signingConfigs {">>, text)
    THEN <<P("Error: signingConfigs not found in android/app/build.gradle", <<>>),
           Snippet("signingConfigs")>>
    ELSE IF ~Contains(pkg, text)
    THEN <<P("Error: package name not found in android/app/build.gradle", <<pkg>>)>>
    ELSE <<>>
\* what the build.gradle checks print: nothing when they pass
GradleDiagnostics(text, pkg) ==
    IF ~Contains(<<"keystoreProperties">>, text)
    THEN <<P("Error: keystoreProperties not found in android/app/build.gradle", <<>>),
           Snippet("keystoreProperties")>>
    ELSE IF ~Contains(<<"signingConfigs {">>, text)
    THEN <<P("Error: signingConfigs not found in android/app/build.gradle", <<>>),
           Snippet("signingConfigs")>>
    ELSE IF ~Contains(pkg, text)
    THEN <<P("Error: package name not found in android/app/build.gradle", <<pkg>>)>>
    ELSE IF Contains(<<"flutterVersionCode.toInteger()">>, text)
    THEN <<P("Error: versionCode must be a real number in android/app/build.gradle", <<>>),
           P("       check: android/app/build.gradle", <<>>)>>
    ELSE <<>>

(***************************************************************************)
(* flutter_check.py: the run, one action per statement group.              *)
(***************************************************************************)

\* exit(1) after printing
Fail(diags) ==
    /\ out' = out \o diags
    /\ exitCode' = 1
    /\ uncaught' = uncaught
    /\ pc' = "done"

\* an exception nothing catches: a traceback on stderr and exit status 1
Raise(exc) ==
    /\ out' = out
    /\ exitCode' = 1
    /\ uncaught' = exc
    /\ pc' = "done"

\* fall through to the next statement; the end of the script is exit status 0
Goto(p) ==
    /\ out' = out
    /\ pc' = p
    /\ exitCode' = IF p = "done" THEN 0 ELSE exitCode
    /\ uncaught' = uncaught

AfterAndroid(a) == IF ~SkipIos(a) THEN "info_plist" ELSE "done"
AfterJson(a) == IF ~SkipAndroid(a) THEN "main_manifest" ELSE AfterAndroid(a)
AfterManifests(a) == IF ~SkipKotlin(a) THEN "kotlin_walk" ELSE "build_gradle"

Open(name) == reads' = Append(reads, name)

ReadVersionDart ==
    /\ prog = "check" /\ pc = "version_dart"
    /\ Open("lib/config/version.dart")
    /\ \E f \in LineFiles(DartLines) :
        IF ~f.exists
        THEN Raise("FileNotFoundError") /\ UNCHANGED VERSION_DART
        ELSE VERSION_DART' = CheckerVersionDart(ReadLines(f)) /\ Goto("pubspec")
    /\ UNCHANGED <<prog, args, VERSION_PUBSPEC, app_info, android_manifest,
                   android_debug_manifest, kotlin_tree, files, main_activity,
                   build_gradle, info_plist, project_pbxproj, packVars>>

ReadVersionPubspec ==
    /\ prog = "check" /\ pc = "pubspec"
    /\ Open("pubspec.yaml")
    /\ \E f \in LineFiles(PubspecLines) :
        IF ~f.exists
        THEN Raise("FileNotFoundError") /\ UNCHANGED VERSION_PUBSPEC
        ELSE VERSION_PUBSPEC' = CheckerVersionPubspec(ReadLines(f))
             /\ Goto("version_cmp")
    /\ UNCHANGED <<prog, args, VERSION_DART, app_info, android_manifest,
                   android_debug_manifest, kotlin_tree, files, main_activity,
                   build_gradle, info_plist, project_pbxproj, packVars>>

CompareVersions ==
    /\ prog = "check" /\ pc = "version_cmp"
    /\ IF VersionsDiffer(VERSION_DART, VERSION_PUBSPEC)
       THEN Fail(<<P("Error: version number in version.dart and pubspec.yaml are different", <<>>),
                   P("       version.dart: %s", <<VERSION_DART>>),
                   P("       pubspec.yaml: %s", <<VERSION_PUBSPEC>>)>>)
       ELSE Goto("json")
    /\ UNCHANGED <<prog, args, VERSION_DART, VERSION_PUBSPEC, app_info,
                   android_manifest, android_debug_manifest, kotlin_tree, files,
                   main_activity, build_gradle, info_plist, project_pbxproj,
                   reads, packVars>>

LoadAppInfo ==
    /\ prog = "check" /\ pc = "json"
    /\ Open("app_info.json")
    /\ \E f \in JsonFiles :
        IF ~f.exists THEN Raise("FileNotFoundError") /\ UNCHANGED app_info
        ELSE IF ~f.wellformed THEN Raise("JSONDecodeError") /\ UNCHANGED app_info
        ELSE app_info' = [loaded |-> TRUE, obj |-> f.obj] /\ Goto(AfterJson(args))
    /\ UNCHANGED <<prog, args, VERSION_DART, VERSION_PUBSPEC, android_manifest,
                   android_debug_manifest, kotlin_tree, files, main_activity,
                   build_gradle, info_plist, project_pbxproj, packVars>>


\* Python's None, and a str value
PyNone == [none |-> TRUE, val |-> <<>>]
Str(v) == [none |-> FALSE, val |-> v]
\* the release bundle directory when the build has left none
NoBundle == [exists |-> FALSE, dirs |-> {}, files |-> {}]

\* a text variable before and after its file was read
Unread == [read |-> FALSE, text |-> <<>>]
Text(t) == [read |-> TRUE, text |-> t]

\* the test of line 84: the app name is missing from the main manifest
MainNameMissing(info, main) == ~Contains(info["name"], main)
\* the test of line 90, which looks into android_manifest once more
DebugNameMissing(info, main, debug) == ~Contains(info["name"], main)

CheckMainManifestName ==
    /\ prog = "check" /\ pc = "main_manifest"
    /\ Open("android/app/src/main/AndroidManifest.xml")
    /\ \E f \in ManifestFiles :
        IF ~f.exists THEN Raise("FileNotFoundError") /\ UNCHANGED android_manifest
        ELSE /\ android_manifest' = Text(f.text)
             /\ IF ~HasKey(app_info.obj, "name") THEN Raise("KeyError")
                ELSE IF MainNameMissing(app_info.obj, f.text)
                THEN Fail(<<P("Error: app name not found in main / AndroidManifest.xml (android:label)", <<>>),
                            P("       check: android/app/src/main/AndroidManifest.xml", <<>>)>>)
                ELSE Goto("debug_manifest")
    /\ UNCHANGED <<prog, args, VERSION_DART, VERSION_PUBSPEC, app_info,
                   android_debug_manifest, kotlin_tree, files, main_activity,
                   build_gradle, info_plist, project_pbxproj, packVars>>

CheckDebugManifestName ==
    /\ prog = "check" /\ pc = "debug_manifest"
    /\ Open("android/app/src/debug/AndroidManifest.xml")
    /\ \E f \in ManifestFiles :
        IF ~f.exists
        THEN Raise("FileNotFoundError") /\ UNCHANGED android_debug_manifest
        ELSE /\ android_debug_manifest' = Text(f.text)
             /\ IF ~HasKey(app_info.obj, "name") THEN Raise("KeyError")
                ELSE IF DebugNameMissing(app_info.obj, android_manifest.text, f.text)
                THEN Fail(<<P("Error: app name not found in debug / AndroidManifest.xml (android:label)", <<>>),
                            P("       check: android/app/src/debug/AndroidManifest.xml", <<>>)>>)
                ELSE Goto("manifest_packages")
    /\ UNCHANGED <<prog, args, VERSION_DART, VERSION_PUBSPEC, app_info,
                   android_manifest, kotlin_tree, files, main_activity,
                   build_gradle, info_plist, project_pbxproj, packVars>>

CheckManifestPackages ==
    /\ prog = "check" /\ pc = "manifest_packages"
    /\ IF ~HasKey(app_info.obj, "package") THEN Raise("KeyError")
       ELSE IF ~Contains(app_info.obj["package"], android_manifest.text)
       THEN Fail(<<P("Error: package name not found in main / AndroidManifest.xml (package)", <<>>),
                   P("       check: android/app/src/main/AndroidManifest.xml", <<>>)>>)
       ELSE IF ~Contains(app_info.obj["package"], android_debug_manifest.text)
       THEN Fail(<<P("Error: package name not found in debug / AndroidManifest.xml (package)", <<>>),
                   P("       check: android/app/src/debug/AndroidManifest.xml", <<>>)>>)
       ELSE Goto(AfterManifests(args))
    /\ UNCHANGED <<prog, args, VERSION_DART, VERSION_PUBSPEC, app_info,
                   android_manifest, android_debug_manifest, kotlin_tree, files,
                   main_activity, build_gradle, info_plist, project_pbxproj,
                   reads, packVars>>

\* "files" before the walk loop has bound it
Unbound == [bound |-> FALSE, names |-> {}]

WalkKotlinTree ==
    /\ prog = "check" /\ pc = "kotlin_walk"
    /\ Open("android/app/src/main/kotlin/")
    /\ \E t \in TreesOnDisk :
        /\ kotlin_tree' = t
        /\ IF ~HasKey(app_info.obj, "package")
           THEN Raise("KeyError") /\ UNCHANGED files
           ELSE IF ~t.exists
           THEN Goto("main_activity_exists") /\ UNCHANGED files
           ELSE IF Reported(t, <<>>, app_info.obj) # {}
           THEN /\ \E q \in Reported(t, <<>>, app_info.obj) :
                     Fail(<<P("Error: package name not found in folder structure", <<q[Len(q)]>>)>>)
                /\ UNCHANGED files
           ELSE /\ \E last \in LastYielded(t, <<>>) :
                     files' = [bound |-> TRUE, names |-> FilesIn(t, last)]
                /\ Goto("main_activity_exists")
    /\ UNCHANGED <<prog, args, VERSION_DART, VERSION_PUBSPEC, app_info,
                   android_manifest, android_debug_manifest, main_activity,
                   build_gradle, info_plist, project_pbxproj, packVars>>

CheckMainActivityExists ==
    /\ prog = "check" /\ pc = "main_activity_exists"
    /\ IF ~files.bound THEN Raise("NameError")
       ELSE IF "MainActivity.kt" \notin files.names
       THEN Fail(<<P("Error: MainActivity.kt not found in android/app/src/main/kotlin/", <<>>)>>)
       ELSE Goto("main_activity_read")
    /\ UNCHANGED <<prog, args, VERSION_DART, VERSION_PUBSPEC, app_info,
                   android_manifest, android_debug_manifest, kotlin_tree, files,
                   main_activity, build_gradle, info_plist, project_pbxproj,
                   reads, packVars>>

\* whether open("%s/MainActivity.kt" % dname) finds the file
MainActivityAtPackagePath(t, info) == t.exists /\ PackagePath(info) \in t.mains

ReadMainActivity ==
    /\ prog = "check" /\ pc = "main_activity_read"
    /\ Open("android/app/src/main/kotlin/<package path>/MainActivity.kt")
    /\ IF ~MainActivityAtPackagePath(kotlin_tree, app_info.obj)
       THEN Raise("FileNotFoundError") /\ UNCHANGED main_activity
       ELSE \E t \in MainActivityTexts :
            /\ main_activity' = Text(t)
            /\ IF ~Contains(app_info.obj["package"], t)
               THEN Fail(<<P("Error: package name not found in MainActivity.kt (package %s)",
                             <<app_info.obj["package"]>>)>>)
               ELSE IF ~Contains(<<"FlutterFragmentActivity">>, t)
               THEN Fail(<<P("Error: FlutterFragmentActivity not found in MainActivity.kt", <<>>),
                           P("       check: android/app/src/main/kotlin/%s/MainActivity.kt", <<>>)>>)
               ELSE Goto("build_gradle")
    /\ UNCHANGED <<prog, args, VERSION_DART, VERSION_PUBSPEC, app_info,
                   android_manifest, android_debug_manifest, kotlin_tree, files,
                   build_gradle, info_plist, project_pbxproj, packVars>>

CheckBuildGradle ==
    /\ prog = "check" /\ pc = "build_gradle"
    /\ Open("android/app/build.gradle")
    /\ \E f \in GradleFiles :
        IF ~f.exists THEN Raise("FileNotFoundError") /\ UNCHANGED build_gradle
        ELSE /\ build_gradle' = Text(f.text)
             /\ IF ~Contains(<<"keystoreProperties">>, f.text)
                   \/ ~Contains(<<"signingConfigs {">>, f.text)
                THEN Fail(GradleDiagnostics(f.text, <<>>))
                ELSE IF ~HasKey(app_info.obj, "package") THEN Raise("KeyError")
                ELSE IF GradleDiagnostics(f.text, app_info.obj["package"]) # <<>>
                THEN Fail(GradleDiagnostics(f.text, app_info.obj["package"]))
                ELSE Goto(AfterAndroid(args))
    /\ UNCHANGED <<prog, args, VERSION_DART, VERSION_PUBSPEC, app_info,
                   android_manifest, android_debug_manifest, kotlin_tree, files,
                   main_activity, info_plist, project_pbxproj, packVars>>

CheckInfoPlist ==
    /\ prog = "check" /\ pc = "info_plist"
    /\ Open("ios/Runner/Info.plist")
    /\ \E f \in PlistFiles :
        IF ~f.exists THEN Raise("FileNotFoundError") /\ UNCHANGED info_plist
        ELSE /\ info_plist' = Text(f.text)
             /\ IF ~HasKey(app_info.obj, "name") THEN Raise("KeyError")
                ELSE IF ~Contains(app_info.obj["name"], f.text)
                THEN Fail(<<P("Error: app name not found in Info.plist (CFBundleDisplayName / CFBundleName)", <<>>),
                            P("       check: ios/Runner/Info.plist", <<>>)>>)
                ELSE Goto("pbxproj")
    /\ UNCHANGED <<prog, args, VERSION_DART, VERSION_PUBSPEC, app_info,
                   android_manifest, android_debug_manifest, kotlin_tree, files,
                   main_activity, build_gradle, project_pbxproj, packVars>>

CheckProjectPbxproj ==
    /\ prog = "check" /\ pc = "pbxproj"
    /\ IF ~HasKey(app_info.obj, "package")
       THEN Raise("KeyError") /\ UNCHANGED <<reads, project_pbxproj>>
       ELSE /\ Open("ios/Runner.xcodeproj/project.pbxproj")
            /\ \E f \in PbxprojFiles :
                IF ~f.exists
                THEN Raise("FileNotFoundError") /\ UNCHANGED project_pbxproj
                ELSE /\ project_pbxproj' = Text(f.text)
                     /\ IF ~Contains(EffectiveIosPackage(app_info.obj), f.text)
                        THEN Fail(<<P("Error: app name '%s' not found in ios/Runner.xcodeproj/project.pbxproj (PRODUCT_NAME and PRODUCT_BUNDLE_IDENTIFIER)",
                                      <<EffectiveIosPackage(app_info.obj)>>)>>)
                        ELSE Goto("done")
    /\ UNCHANGED <<prog, args, VERSION_DART, VERSION_PUBSPEC, app_info,
                   android_manifest, android_debug_manifest, kotlin_tree, files,
                   main_activity, build_gradle, info_plist, packVars>>

ArgsSet == [skip_ios : BOOLEAN, skip_android : BOOLEAN, skip_kotlin : BOOLEAN]

InitCheck ==
    /\ prog = "check"
    /\ pc = "version_dart"
    /\ args \in ArgsSet
    /\ VERSION_DART = <<>>
    /\ VERSION_PUBSPEC = <<>>
    /\ app_info = [loaded |-> FALSE, obj |-> <<>>]
    /\ android_manifest = Unread
    /\ android_debug_manifest = Unread
    /\ kotlin_tree = NoTree
    /\ files = Unbound
    /\ main_activity = Unread
    /\ build_gradle = Unread
    /\ info_plist = Unread
    /\ project_pbxproj = Unread
    /\ reads = <<>>
    /\ out = <<>>
    /\ exitCode = -1
    /\ uncaught = "none"
    /\ platform = "none"
    /\ version_file = NoLines
    /\ APP_VERSION = PyNone
    /\ FINAL_ZIP = <<>>
    /\ bundle = NoBundle
    /\ rootfs = {}
    /\ desktop = {}
    /\ trace = <<>>
    /\ unlinked = FALSE

NextCheck ==
    \/ ReadVersionDart
    \/ ReadVersionPubspec
    \/ CompareVersions
    \/ LoadAppInfo
    \/ CheckMainManifestName
    \/ CheckDebugManifestName
    \/ CheckManifestPackages
    \/ WalkKotlinTree
    \/ CheckMainActivityExists
    \/ ReadMainActivity
    \/ CheckBuildGradle
    \/ CheckInfoPlist
    \/ CheckProjectPbxproj

Spec == InitCheck /\ [][NextCheck]_vars


(***************************************************************************)
(* build_linux.py and build_windows.py: the pure parts.                    *)
(***************************************************************************)

\* the outcome of the loop of get_app_version: the value left in APP_VERSION,
\* or the IndexError of line.split("'")[1] on a line without a single quote
RECURSIVE PackagerVersion(_)
PackagerVersion(lines) ==
    IF lines = <<>> THEN [raised |-> FALSE, value |-> PyNone]
    ELSE LET line == Head(lines)
         IN  IF Contains(<<"const String ", "APP_VERSION">>, line)
             THEN IF Len(Split(line, "'")) < 2
                  THEN [raised |-> TRUE, value |-> PyNone]
                  ELSE [raised |-> FALSE, value |-> Str(Split(line, "'")[2])]
             ELSE PackagerVersion(Tail(lines))

\* "{APP_VERSION}" in an f-string
Format(v) == IF v.none THEN <<"None">> ELSE v.val

ArchiveSuffix(plat) ==
    IF plat = "linux" THEN <<"-linux-x64.tar.bz2">> ELSE <<"-windows-x64.zip">>
\* FINAL_ZIP = f"woxxy-{APP_VERSION}-<platform>"
ArchiveName(plat, v) == <<"woxxy-">> \o Format(v) \o ArchiveSuffix(plat)

\* BASE_DIR, as path components
BaseDir(plat) ==
    IF plat = "linux" THEN <<"build", "linux", "x64", "release", "bundle">>
    ELSE <<"build", "windows", "x64", "runner", "Release">>

\* os.path.join(root, file)
Join(root, file) == Append(root, file)

\* length of the longest common prefix of two paths
RECURSIVE CommonLen(_, _)
CommonLen(a, b) ==
    IF a = <<>> \/ b = <<>> \/ Head(a) # Head(b) THEN 0
    ELSE 1 + CommonLen(Tail(a), Tail(b))

\* os.path.relpath(path, start)
RelPath(path, start) ==
    LET c == CommonLen(path, start)
    IN  [i \in 1..(Len(start) - c) |-> ".."] \o SubSeq(path, c + 1, Len(path))

\* the release bundles a build may leave: directories and files as paths from
\* BASE_DIR
BundleDirPaths == {<<"data">>, <<"lib">>, <<"data", "flutter_assets">>}
BundleFilePaths ==
    {<<"woxxy">>, <<"lib", "libapp.so">>, <<"data", "flutter_assets", "a.bin">>}
Bundles ==
    {[exists |-> TRUE, dirs |-> d, files |-> f] :
        d \in {x \in SUBSET BundleDirPaths :
                 \A q \in x : Len(q) = 1 \/ Parent(q) \in x},
        f \in SUBSET BundleFilePaths}
BundlesOnDisk ==
    {NoBundle} \cup
    {b \in Bundles : \A f \in b.files : Len(f) = 1 \/ Parent(f) \in b.dirs}

\* the arcnames zipf.write stores: one entry per file of every walked directory
ZipEntries(plat, b) ==
    {[path |-> RelPath(Join(BaseDir(plat) \o Parent(f), f[Len(f)]), BaseDir(plat)),
      kind |-> "file"] : f \in b.files}

\* the members "tar cvfj <archive> ." stores, run inside BASE_DIR
TarEntries(b) ==
    {[path |-> <<".">>, kind |-> "dir"]}
    \cup {[path |-> <<".">> \o d, kind |-> "dir"] : d \in b.dirs}
    \cup {[path |-> <<".">> \o f, kind |-> "file"] : f \in b.files}

\* an archive file: its name, whether this run wrote it, and its entries
Archive(name, made, entries) == [name |-> name, made |-> made, entries |-> entries]

\* os.unlink(dir/name) and the lookup of dir/name
Unlink(dir, name) == {a \in dir : a.name # name}
Exists(dir, name) == \E a \in dir : a.name = name

\* writing dir/name anew replaces what was there
Write(dir, archive) == Unlink(dir, archive.name) \cup {archive}

RenameSourceKept(root, name) == root
\* os.rename(FINAL_ZIP, ~/Desktop/FINAL_ZIP): what it leaves in the project root
RenameSource(root, name) == Unlink(root, name)
\* ... and in ~/Desktop
RenameTarget(root, desk, name) ==
    Unlink(desk, name) \cup {a \in root : a.name = name}


(***************************************************************************)
(* build_linux.py and build_windows.py: the run.                           *)
(***************************************************************************)

checkState == <<args, VERSION_DART, VERSION_PUBSPEC, app_info, android_manifest,
                android_debug_manifest, kotlin_tree, files, main_activity,
                build_gradle, info_plist, project_pbxproj, reads>>

\* the module-level test that the script runs from the project root
CheckProjectRoot ==
    /\ prog = "pack" /\ pc = "start"
    /\ IF ~version_file.exists
       THEN Fail(<<P("Please run this script from the root of the project.", <<>>)>>)
       ELSE Goto("get_app_version")
    /\ UNCHANGED <<prog, checkState, packVars>>

get_app_version ==
    /\ prog = "pack" /\ pc = "get_app_version"
    /\ trace' = Append(trace, "get_app_version")
    /\ LET r == PackagerVersion(ReadLines(version_file))
       IN  IF r.raised
           THEN Raise("IndexError") /\ UNCHANGED <<APP_VERSION, FINAL_ZIP>>
           ELSE /\ APP_VERSION' = r.value
                /\ FINAL_ZIP' = ArchiveName(platform, r.value)
                /\ Goto("build")
    /\ UNCHANGED <<prog, checkState, platform, version_file, bundle, rootfs,
                   desktop, unlinked>>

\* build_linux() / build_windows(): three os.system calls whose status is not
\* looked at; they leave a release bundle, or none
build ==
    /\ prog = "pack" /\ pc = "build"
    /\ trace' = Append(trace, "build")
    /\ bundle' \in BundlesOnDisk
    /\ Goto("zip_release_folder")
    /\ UNCHANGED <<prog, checkState, platform, version_file, APP_VERSION,
                   FINAL_ZIP, rootfs, desktop, unlinked>>

\* the entries zip_release_folder stores for bundle b
ArchiveEntries(plat, b) ==
    IF plat = "linux" THEN TarEntries(b) ELSE ZipEntries(plat, b)

zip_release_folder ==
    /\ prog = "pack" /\ pc = "zip_release_folder"
    /\ trace' = Append(trace, "zip_release_folder")
    /\ IF platform = "linux" /\ ~bundle.exists
       THEN /\ Fail(<<P("Release folder not found. Please run the build_linux() function first.", <<>>)>>)
            /\ UNCHANGED rootfs
       ELSE /\ rootfs' = Write(rootfs, Archive(FINAL_ZIP, "new",
                                               ArchiveEntries(platform, bundle)))
            /\ Goto("move_unlink")
    /\ UNCHANGED <<prog, checkState, platform, version_file, APP_VERSION,
                   FINAL_ZIP, bundle, desktop, unlinked>>

\* move_zip_to_desktop, first statement: the destination is unlinked when it
\* exists (Linux tests os.path.exists, Windows catches FileNotFoundError)
move_unlink ==
    /\ prog = "pack" /\ pc = "move_unlink"
    /\ trace' = Append(trace, "move_zip_to_desktop")
    /\ desktop' = IF Exists(desktop, FINAL_ZIP) THEN Unlink(desktop, FINAL_ZIP)
                  ELSE desktop
    /\ unlinked' = Exists(desktop, FINAL_ZIP)
    /\ Goto("move_rename")
    /\ UNCHANGED <<prog, checkState, platform, version_file, APP_VERSION,
                   FINAL_ZIP, bundle, rootfs>>

\* move_zip_to_desktop, second statement: os.rename; then the end of __main__
move_rename ==
    /\ prog = "pack" /\ pc = "move_rename"
    /\ IF ~Exists(rootfs, FINAL_ZIP)
       THEN Raise("FileNotFoundError") /\ UNCHANGED <<rootfs, desktop>>
       ELSE /\ desktop' = RenameTarget(rootfs, desktop, FINAL_ZIP)
            /\ rootfs' = RenameSource(rootfs, FINAL_ZIP)
            /\ pc' = "done"
            /\ exitCode' = 0
            /\ uncaught' = uncaught
            /\ out' = IF platform = "windows"
                      THEN Append(out, P("Windows executable built and zipped as %s and moved to the Desktop.", <<FINAL_ZIP>>))
                      ELSE out
    /\ UNCHANGED <<prog, checkState, platform, version_file, APP_VERSION,
                   FINAL_ZIP, bundle, trace, unlinked>>

\* archives a previous run may have left behind
OldArchives(plat) ==
    {Archive(ArchiveName(plat, Str(<<v>>)), "old", {}) : v \in {"1.0", "2.0"}}

InitPack ==
    /\ prog = "pack"
    /\ pc = "start"
    /\ args = [skip_ios |-> FALSE, skip_android |-> FALSE, skip_kotlin |-> FALSE]
    /\ VERSION_DART = <<>>
    /\ VERSION_PUBSPEC = <<>>
    /\ app_info = [loaded |-> FALSE, obj |-> <<>>]
    /\ android_manifest = Unread
    /\ android_debug_manifest = Unread
    /\ kotlin_tree = NoTree
    /\ files = Unbound
    /\ main_activity = Unread
    /\ build_gradle = Unread
    /\ info_plist = Unread
    /\ project_pbxproj = Unread
    /\ reads = <<>>
    /\ out = <<>>
    /\ exitCode = -1
    /\ uncaught = "none"
    /\ platform \in {"linux", "windows"}
    /\ version_file \in LineFiles(DartLines)
    /\ APP_VERSION = PyNone
    /\ FINAL_ZIP = <<>>
    /\ bundle = NoBundle
    /\ rootfs \in {{}} \cup {{a} : a \in OldArchives(platform)}
    /\ desktop \in {{}} \cup {{a} : a \in OldArchives(platform)}
    /\ trace = <<>>
    /\ unlinked = FALSE

NextPack ==
    \/ CheckProjectRoot
    \/ get_app_version
    \/ build
    \/ zip_release_folder
    \/ move_unlink
    \/ move_rename

SpecPack == InitPack /\ [][NextPack]_vars


(***************************************************************************)
(* The claims.                                                             *)
(***************************************************************************)

\* the messages printed so far
Printed == {out[i].msg : i \in 1..Len(out)}

VersionDiagnostic ==
    <<P("Error: version number in version.dart and pubspec.yaml are different", <<>>),
      P("       version.dart: %s", <<VERSION_DART>>),
      P("       pubspec.yaml: %s", <<VERSION_PUBSPEC>>)>>

\* both version files were read and the comparison of line 69 was made
VersionCompared ==
    /\ prog = "check"
    /\ pc \notin {"version_dart", "pubspec", "version_cmp"}
    /\ ~(uncaught = "FileNotFoundError" /\ Len(reads) <= 2)

\* C1: once both version values are read, the run goes on past the version
\* check exactly when the two values are the same text; with the same text the
\* run ends with status 0 unless a later check prints a diagnostic or raises;
\* with different texts it ends with status 1, having printed the version
\* diagnostic with both values and nothing else, and having opened only
\* version.dart and pubspec.yaml (the identity JSON is not loaded).
C1_VersionCheck ==
    VersionCompared =>
        IF VERSION_DART = VERSION_PUBSPEC
        THEN /\ "Error: version number in version.dart and pubspec.yaml are different"
                    \notin Printed
             /\ (pc = "done" /\ out = <<>> /\ uncaught = "none" => exitCode = 0)
             /\ (pc = "done" /\ exitCode = 0 => out = <<>> /\ uncaught = "none")
        ELSE /\ pc = "done" /\ exitCode = 1 /\ uncaught = "none"
             /\ out = VersionDiagnostic
             /\ reads = <<"lib/config/version.dart", "pubspec.yaml">>
             /\ ~app_info.loaded

\* C1 witness: two different non-empty versions were read and the run ended 1
C1_Witness ==
    /\ VersionCompared
    /\ VERSION_DART = <<"1.0">> /\ VERSION_PUBSPEC = <<"2.0">>
    /\ pc = "done" /\ exitCode = 1

ManifestMessages ==
    {"Error: app name not found in main / AndroidManifest.xml (android:label)",
     "Error: app name not found in debug / AndroidManifest.xml (android:label)",
     "Error: package name not found in main / AndroidManifest.xml (package)",
     "Error: package name not found in debug / AndroidManifest.xml (package)"}

\* C2: with Android checks enabled, once both manifests are read, an app name
\* missing from either of them ends the run with status 1 and a manifest
\* diagnostic.
C2_NameInBothManifests ==
    (/\ prog = "check"
     /\ android_manifest.read /\ android_debug_manifest.read
     /\ HasKey(app_info.obj, "name")
     /\ \/ ~Contains(app_info.obj["name"], android_manifest.text)
        \/ ~Contains(app_info.obj["name"], android_debug_manifest.text))
    => /\ pc = "done" /\ exitCode = 1
       /\ out # <<>> /\ out[1].msg \in ManifestMessages

AndroidArtifacts ==
    {"android/app/src/main/AndroidManifest.xml",
     "android/app/src/debug/AndroidManifest.xml",
     "android/app/src/main/kotlin/",
     "android/app/src/main/kotlin/<package path>/MainActivity.kt",
     "android/app/build.gradle"}
IosArtifacts ==
    {"ios/Runner/Info.plist", "ios/Runner.xcodeproj/project.pbxproj"}
Opened == {reads[i] : i \in 1..Len(reads)}

\* C3: with --skip-android no Android artifact is ever opened and nothing is
\* taken from one; with --skip-ios the same for the iOS artifacts; with both,
\* a finished run has status 0 exactly when the two versions were read and
\* are equal and the identity JSON was loaded, and prints nothing but the
\* version diagnostic.
C3_SkipFlags ==
    prog = "check" =>
        /\ args.skip_android =>
              /\ Opened \cap AndroidArtifacts = {}
              /\ ~android_manifest.read /\ ~android_debug_manifest.read
              /\ ~main_activity.read /\ ~build_gradle.read
              /\ kotlin_tree = NoTree /\ files = Unbound
              /\ Printed \cap ManifestMessages = {}
        /\ args.skip_ios =>
              /\ Opened \cap IosArtifacts = {}
              /\ ~info_plist.read /\ ~project_pbxproj.read
        /\ args.skip_android /\ args.skip_ios /\ pc = "done" =>
              /\ exitCode = 0 <=>
                    (VersionCompared /\ VERSION_DART = VERSION_PUBSPEC
                     /\ app_info.loaded)
              /\ out \in {<<>>, VersionDiagnostic}

\* C3 witness: both platforms skipped, an identity JSON holding no key at all,
\* and the run ended with status 0
C3_Witness ==
    /\ prog = "check" /\ args.skip_android /\ args.skip_ios
    /\ pc = "done" /\ exitCode = 0
    /\ app_info.loaded /\ app_info.obj = <<>>


\* the artifacts in the order the script opens them
ReadOrder ==
    <<"lib/config/version.dart", "pubspec.yaml", "app_info.json",
      "android/app/src/main/AndroidManifest.xml",
      "android/app/src/debug/AndroidManifest.xml",
      "android/app/src/main/kotlin/",
      "android/app/src/main/kotlin/<package path>/MainActivity.kt",
      "android/app/build.gradle",
      "ios/Runner/Info.plist", "ios/Runner.xcodeproj/project.pbxproj">>
Position(name) == CHOOSE i \in 1..Len(ReadOrder) : ReadOrder[i] = name

\* the messages of each check of the sequence
CheckMessages ==
    {{"Error: version number in version.dart and pubspec.yaml are different",
      "       version.dart: %s", "       pubspec.yaml: %s"},
     ManifestMessages \cup {"       check: android/app/src/main/AndroidManifest.xml",
                            "       check: android/app/src/debug/AndroidManifest.xml"},
     {"Error: package name not found in folder structure",
      "Error: MainActivity.kt not found in android/app/src/main/kotlin/",
      "Error: package name not found in MainActivity.kt (package %s)",
      "Error: FlutterFragmentActivity not found in MainActivity.kt",
      "       check: android/app/src/main/kotlin/%s/MainActivity.kt"},
     {"Error: keystoreProperties not found in android/app/build.gradle",
      "Error: signingConfigs not found in android/app/build.gradle",
      "remediation snippet",
      "Error: package name not found in android/app/build.gradle",
      "Error: versionCode must be a real number in android/app/build.gradle",
      "       check: android/app/build.gradle"},
     {"Error: app name not found in Info.plist (CFBundleDisplayName / CFBundleName)",
      "       check: ios/Runner/Info.plist"},
     {"Error: app name '%s' not found in ios/Runner.xcodeproj/project.pbxproj (PRODUCT_NAME and PRODUCT_BUNDLE_IDENTIFIER)"}}

\* every check the command line enables passes on what was read
EnabledChecksPass ==
    /\ VersionCompared /\ VERSION_DART = VERSION_PUBSPEC
    /\ app_info.loaded
    /\ ~args.skip_android =>
          /\ Contains(app_info.obj["name"], android_manifest.text)
          /\ Contains(app_info.obj["name"], android_debug_manifest.text)
          /\ Contains(app_info.obj["package"], android_manifest.text)
          /\ Contains(app_info.obj["package"], android_debug_manifest.text)
          /\ ~args.skip_kotlin =>
                /\ \A q \in kotlin_tree.dirs : ~BadDir(q, app_info.obj)
                /\ PackagePath(app_info.obj) \in kotlin_tree.mains
                /\ Contains(app_info.obj["package"], main_activity.text)
                /\ Contains(<<"FlutterFragmentActivity">>, main_activity.text)
          /\ Contains(<<"keystoreProperties">>, build_gradle.text)
          /\ Contains(<<"signingConfigs {">>, build_gradle.text)
          /\ Contains(app_info.obj["package"], build_gradle.text)
          /\ ~Contains(<<"flutterVersionCode.toInteger()">>, build_gradle.text)
    /\ ~args.skip_ios =>
          /\ Contains(app_info.obj["name"], info_plist.text)
          /\ Contains(IF HasKey(app_info.obj, "ios-package")
                      THEN app_info.obj["ios-package"]
                      ELSE app_info.obj["package"], project_pbxproj.text)

\* C4: the artifacts are opened in the fixed order; a run that ended is at
\* its end and nothing runs after a failure; status 0 comes only with every
\* enabled check passing; a status 1 that no exception caused comes with the
\* diagnostic of exactly one check.
C4_FirstFailureHalts ==
    prog = "check" =>
        /\ \A i, j \in 1..Len(reads) :
              i < j => Position(reads[i]) < Position(reads[j])
        /\ (exitCode # -1) <=> (pc = "done")
        /\ exitCode = 0 => out = <<>> /\ EnabledChecksPass
        /\ exitCode = 1 /\ uncaught = "none" =>
              /\ out # <<>>
              /\ \E m \in CheckMessages : Printed \subseteq m

NotFoundDiagnostic ==
    <<P("Error: MainActivity.kt not found in android/app/src/main/kotlin/", <<>>)>>

\* the existence check of MainActivity.kt was made on a tree whose directory
\* names are all package components (an empty or missing root included)
ExistenceChecked ==
    /\ prog = "check"
    /\ "android/app/src/main/kotlin/" \in Opened
    /\ pc # "main_activity_exists"
    /\ \A q \in kotlin_tree.dirs : ~BadDir(q, app_info.obj)

\* C5: the existence check passes exactly when MainActivity.kt is at the
\* path of the full package identifier; when it is not there, the run ends
\* with status 1 and the 'MainActivity.kt not found' diagnostic, with no
\* exception.
C5_MainActivityAtPackagePath ==
    ExistenceChecked =>
        IF PackagePath(app_info.obj) \in kotlin_tree.mains
        THEN out # NotFoundDiagnostic /\ uncaught # "NameError"
        ELSE /\ pc = "done" /\ exitCode = 1 /\ uncaught = "none"
             /\ out = NotFoundDiagnostic

\* C6: once project.pbxproj is read, the run ends with status 1 and the
\* project-file diagnostic exactly when the effective identifier ("ios-package"
\* when the JSON has it, "package" otherwise) is not in the file, and ends with
\* status 0 when it is, whether or not "package" itself is in the file.
C6_IosProjectIdentifier ==
    (prog = "check" /\ project_pbxproj.read) =>
        LET info == app_info.obj
            pname == IF "ios-package" \in DOMAIN info THEN info["ios-package"]
                     ELSE info["package"]
        IN  /\ pc = "done"
            /\ IF Contains(pname, project_pbxproj.text)
               THEN exitCode = 0 /\ out = <<>>
               ELSE /\ exitCode = 1
                    /\ out = <<P("Error: app name '%s' not found in ios/Runner.xcodeproj/project.pbxproj (PRODUCT_NAME and PRODUCT_BUNDLE_IDENTIFIER)",
                                 <<pname>>)>>

\* C6 witness: an override is given, the project file holds the override and
\* not the general package, and the run ended with status 0
C6_Witness ==
    /\ prog = "check" /\ project_pbxproj.read
    /\ HasKey(app_info.obj, "ios-package")
    /\ Contains(app_info.obj["ios-package"], project_pbxproj.text)
    /\ ~Contains(app_info.obj["package"], project_pbxproj.text)
    /\ pc = "done" /\ exitCode = 0

\* C7: once build.gradle is read, the run goes on without a diagnostic exactly
\* when the file holds 'keystoreProperties', 'signingConfigs {' and the
\* package and does not hold 'flutterVersionCode.toInteger()'; otherwise it
\* ends with status 1; a missing keystoreProperties prints that message with
\* its snippet (also when signingConfigs is missing too), a missing
\* signingConfigs alone prints that message with its snippet.
C7_BuildGradle ==
    (prog = "check" /\ build_gradle.read) =>
        LET t == build_gradle.text
            ks == Contains(<<"keystoreProperties">>, t)
            sc == Contains(<<"signingConfigs {">>, t)
            pk == Contains(app_info.obj["package"], t)
            vc == Contains(<<"flutterVersionCode.toInteger()">>, t)
            stopped == /\ pc = "done" /\ exitCode = 1 /\ uncaught = "none"
                       /\ reads[Len(reads)] = "android/app/build.gradle"
        IN  /\ (ks /\ sc /\ pk /\ ~vc) <=> ~stopped
            /\ (ks /\ sc /\ pk /\ ~vc) =>
                  IF args.skip_ios THEN pc = "done" /\ exitCode = 0 /\ out = <<>>
                  ELSE pc = "info_plist" \/ "ios/Runner/Info.plist" \in Opened
            /\ ~ks => stopped /\ out =
                  <<P("Error: keystoreProperties not found in android/app/build.gradle", <<>>),
                    Snippet("keystoreProperties")>>
            /\ ks /\ ~sc => stopped /\ out =
                  <<P("Error: signingConfigs not found in android/app/build.gradle", <<>>),
                    Snippet("signingConfigs")>>
            /\ ks /\ sc /\ ~pk => stopped /\ out =
                  <<P("Error: package name not found in android/app/build.gradle",
                      <<app_info.obj["package"]>>)>>
            /\ ks /\ sc /\ pk /\ vc => stopped /\ Len(out) = 2 /\ out[1] =
                  P("Error: versionCode must be a real number in android/app/build.gradle", <<>>)

\* C7 witness: both signing directives are missing and the run ended with
\* the keystoreProperties diagnostic
C7_Witness ==
    /\ prog = "check" /\ build_gradle.read
    /\ ~Contains(<<"keystoreProperties">>, build_gradle.text)
    /\ ~Contains(<<"signingConfigs {">>, build_gradle.text)
    /\ pc = "done" /\ exitCode = 1
    /\ out[1].msg = "Error: keystoreProperties not found in android/app/build.gradle"


\* what extracting an archive into an empty directory creates: an entry's
\* "." components name no directory, and every entry brings its parents
Normal(path) == SelectSeq(path, LAMBDA c : c # ".")
Prefixes(path) == {SubSeq(path, 1, k) : k \in 1..(Len(path) - 1)}
ExtractedFiles(a) == {Normal(e.path) : e \in {x \in a.entries : x.kind = "file"}}
ExtractedDirs(a) ==
    ({Normal(e.path) : e \in {x \in a.entries : x.kind = "dir"}}
     \cup UNION {Prefixes(Normal(e.path)) : e \in a.entries}) \ {<<>>}
ArchiveAt(dir, name) == CHOOSE a \in dir : a.name = name

\* C8: after zip_release_folder, the archive written in this run extracts to
\* the files and the directories of the release bundle (empty directories
\* included), and no entry starts with the bundle's base directory.
C8_ArchiveRoundTrip ==
    (prog = "pack" /\ pc = "move_unlink" /\ bundle.exists) =>
        /\ Exists(rootfs, FINAL_ZIP)
        /\ LET a == ArchiveAt(rootfs, FINAL_ZIP)
           IN  /\ a.made = "new"
               /\ ExtractedFiles(a) = bundle.files
               /\ ExtractedDirs(a) = bundle.dirs
               /\ \A e \in a.entries : ~StartsWith(e.path, BaseDir(platform))

MainOrder ==
    <<"get_app_version", "build", "zip_release_folder", "move_zip_to_desktop">>

\* C9: the functions of __main__ run in the order get_app_version, build,
\* zip_release_folder, move_zip_to_desktop; between the unlink and the rename
\* of move_zip_to_desktop no file of the archive's name is on the Desktop; once
\* the run has ended with status 0, all four ran, the archive name is the one
\* built from the version, the Desktop holds under that name exactly the
\* archive written in this run, and the project root holds none of that name.
C9_MoveToDesktop ==
    prog = "pack" =>
        /\ Len(trace) <= Len(MainOrder) /\ trace = SubSeq(MainOrder, 1, Len(trace))
        /\ pc = "move_rename" => ~Exists(desktop, FINAL_ZIP)
        /\ pc = "done" /\ exitCode = 0 =>
              /\ trace = MainOrder
              /\ FINAL_ZIP = <<"woxxy-">>
                               \o (IF APP_VERSION.none THEN <<"None">> ELSE APP_VERSION.val)
                               \o ArchiveSuffix(platform)
              /\ {a \in desktop : a.name = FINAL_ZIP}
                    = {Archive(FINAL_ZIP, "new", ArchiveEntries(platform, bundle))}
              /\ ~Exists(rootfs, FINAL_ZIP)

\* C9 witness: a file of the archive's name was on the Desktop, was unlinked,
\* and the run ended with status 0
C9_Witness ==
    /\ prog = "pack" /\ pc = "done" /\ exitCode = 0
    /\ unlinked
    /\ \E a \in desktop : a.name = FINAL_ZIP /\ a.made = "new"

\* C10: once get_app_version has run on a version.dart from which the checker
\* reads a non-empty version, the packager did not raise and its APP_VERSION
\* is the version the checker reads.
C10_SameVersion ==
    (/\ prog = "pack" /\ trace # <<>>
     /\ CheckerVersionDart(ReadLines(version_file)) # <<>>)
    => /\ uncaught = "none"
       /\ ~APP_VERSION.none
       /\ APP_VERSION.val = CheckerVersionDart(ReadLines(version_file))

====
